---- MODULE Spec2Model ----
(***************************************************************************)
(* A model of the Grafana -> Perses bulk migrator (src/main.go).           *)
(*                                                                         *)
(* Strings of the program are sequences of one-character atoms, so that    *)
(* lowercasing, regular-expression replacement, trimming and suffix tests  *)
(* are computed character by character, as the Go code computes them.      *)
(***************************************************************************)
EXTENDS Integers, Sequences, FiniteSets, TLC

VARIABLES
    \* ---- the identifier sanitizer, exercised on its own (SanSpec) ----
    sanPc,      \* "idle" | "input" | "once" | "twice"
    title,      \* the string handed to sanitizeFilenameForRegex
    slug,       \* sanitizeFilenameForRegex(title)
    slug2,      \* sanitizeFilenameForRegex(slug)
    valid,      \* validateFilenameRegex(slug)
    \* ---- configuration and environment of one run ----
    inputGiven,     \* *inputDir # ""
    outputGiven,    \* *outputDir # "": an output root outside the input root
    cleanUp,        \* *cleanUp
    recursive,      \* *recursive
    rootReadable,   \* the input root exists and can be read
    inputTree,      \* the entries under the input root
    clock,          \* time.Now(), in minutes
    \* ---- the run (main) ----
    pc,             \* where main is
    fatal,          \* what log.Fatal named when it ended the run, or "none"
    files,          \* what collectJSONFiles returned
    idx,            \* position of the running per-file loop
    summary,        \* the MigrationSummary
    dashboards,     \* the []DashboardInfo built by the normalization stage
    grafanaTree,    \* files under <output>/grafana-schema-latest
    migFiles,       \* the files the migration stage found by walking grafanaTree
    persesTree,     \* files under <output>/perses
    lastWarning,    \* the cause the last step logged a "Warning:" for, or "none"
    rendered,       \* what displayMigrationSummary printed
    \* ---- history of the calls made, kept for the properties ----
    importLog,      \* the calls of importDashboardToGrafana
    exportLog,      \* the calls of exportSingleUpdatedDashboard
    migrateLog,     \* the iterations of the migration loop
    provisioned,    \* the services and tools main has made ready so far
    teardown,       \* the containers deleteContainer was called for
    \* ---- importDashboardToGrafana on one document (ImpSpec) ----
    impPc,          \* "idle" | "call" | "posted" | "failed"
    impFile,        \* the document the input file holds
    impPayload,     \* the import payload that was posted
    \* ---- exportSingleUpdatedDashboard on one dashboard (ExpSpec) ----
    expPc,          \* "idle" | "call" | "written" | "failed"
    expUid,         \* the uid argument
    expRelPath,     \* the relativePath argument
    expFetched,     \* the spec of the fetched dashboard response
    expFile,        \* the file that was written: its path and its document
    \* ---- the datasource handling of one migrated document (DsSpec) ----
    dsPc,           \* "idle" | "migrate" | "ok" | the failure
    useDefaultPersesDatasource,     \* *useDefaultPersesDatasource
    dsOutput,       \* what percli wrote on standard output
    dsAccepted,     \* dsOutput unmarshals into a persesv1.Dashboard
    dsWritten,      \* what os.WriteFile was given
    dsSummary,      \* the MigrationSummary, for this one file
    dsTree          \* files under <output>/perses

sanVars == <<sanPc, title, slug, slug2, valid>>
runVars == <<inputGiven, outputGiven, cleanUp, teardown, recursive, rootReadable, inputTree,
             clock, pc, fatal, files, idx,
             summary, dashboards, grafanaTree, migFiles, persesTree, lastWarning,
             rendered, importLog, exportLog, migrateLog, provisioned>>
impVars == <<impPc, impFile, impPayload>>
expVars == <<expPc, expUid, expRelPath, expFetched, expFile>>
dsVars == <<dsPc, useDefaultPersesDatasource, dsOutput, dsAccepted, dsWritten, dsSummary,
           dsTree>>
\* the single-call specifications
unitVars == <<sanVars, impVars, expVars, dsVars>>
\* what no step of a run changes
cfgVars == <<unitVars, inputGiven, outputGiven, cleanUp, recursive, rootReadable, inputTree>>
vars == <<unitVars, runVars>>

(***************************************************************************)
(* Bounds of the model.                                                    *)
(***************************************************************************)
MaxLen == 3         \* longest title drawn for the sanitizer on its own
MaxFiles == 4       \* most entries under the input root
MaxClock == 2       \* last minute the clock reaches during a run
MaxTearFiles == 1   \* most entries under the input root of a run followed to its exit
MaxRerunFiles == 2  \* most entries the operator put under the input root of a second run
MaxStale == 1       \* most files an earlier run left in the stage-A output tree

(***************************************************************************)
(* Characters.                                                             *)
(***************************************************************************)
LowerLetters == <<"a","b","c","d","e","f","g","h","i","j","k","l","m",
                  "n","o","p","q","r","s","t","u","v","w","x","y","z">>
UpperLetters == <<"A","B","C","D","E","F","G","H","I","J","K","L","M",
                  "N","O","P","Q","R","S","T","U","V","W","X","Y","Z">>
Digits == <<"0","1","2","3","4","5","6","7","8","9">>

Range(s) == {s[i] : i \in 1..Len(s)}

\* Non-ASCII code points are atoms named by their code point: U+00C9 (E acute)
\* lowercases to U+00E9, which is still outside [a-z0-9]; U+212A (Kelvin sign)
\* lowercases to the ASCII letter k.
IndexOf(s, c) == CHOOSE i \in 1..Len(s) : s[i] = c

UpperSet == Range(UpperLetters)
LowerAlnumSet == Range(LowerLetters) \cup Range(Digits)

\* the lowercase letter of each uppercase letter
LowerOf == [c \in UpperSet |-> LowerLetters[IndexOf(UpperLetters, c)]]

ToLowerChar(c) ==
    IF c \in UpperSet THEN LowerOf[c]
    ELSE IF c = "U+00C9" THEN "U+00E9"
    ELSE IF c = "U+212A" THEN "k"
    ELSE c

\* strings.ToLower
ToLower(s) == [i \in 1..Len(s) |-> ToLowerChar(s[i])]

\* the character class [a-z0-9]
IsLowerAlnum(c) == c \in LowerAlnumSet

\* the character class [-a-z0-9]
IsSlugChar(c) == IsLowerAlnum(c) \/ c = "-"

RECURSIVE SkipRun(_)
\* the rest of s after the run of characters outside [a-z0-9] it starts with
SkipRun(s) ==
    IF s = <<>> \/ IsLowerAlnum(Head(s)) THEN s ELSE SkipRun(Tail(s))

RECURSIVE ReplaceEach(_)
ReplaceEach(s) ==
    IF s = <<>> THEN <<>>
    ELSE IF IsLowerAlnum(Head(s)) THEN <<Head(s)>> \o ReplaceEach(Tail(s))
    ELSE <<"-">> \o ReplaceEach(Tail(s))

RECURSIVE ReplaceRuns(_)
\* regexp.MustCompile(`[^a-z0-9]+`).ReplaceAllString(s, "-")
ReplaceRuns(s) ==
    IF s = <<>> THEN <<>>
    ELSE IF IsLowerAlnum(Head(s)) THEN <<Head(s)>> \o ReplaceRuns(Tail(s))
    ELSE <<"-">> \o ReplaceRuns(SkipRun(Tail(s)))

RECURSIVE TrimLeft(_, _)
TrimLeft(s, c) == IF s # <<>> /\ Head(s) = c THEN TrimLeft(Tail(s), c) ELSE s

RECURSIVE TrimRight(_, _)
TrimRight(s, c) ==
    IF s # <<>> /\ s[Len(s)] = c THEN TrimRight(SubSeq(s, 1, Len(s) - 1), c) ELSE s

\* strings.Trim(s, c) for a one-character cutset
Trim(s, c) == TrimRight(TrimLeft(s, c), c)

HasSuffix(s, suf) ==
    /\ Len(s) >= Len(suf)
    /\ SubSeq(s, Len(s) - Len(suf) + 1, Len(s)) = suf

\* strings.TrimSuffix
TrimSuffix(s, suf) ==
    IF HasSuffix(s, suf) THEN SubSeq(s, 1, Len(s) - Len(suf)) ELSE s

DotJson == <<".","j","s","o","n">>
Placeholder == <<"d","a","s","h","b","o","a","r","d">>

(***************************************************************************)
(* The identifier sanitizer.                                               *)
(***************************************************************************)
\* a sanitizer that trims before it replaces
sanitizeTrimFirst(t) ==
    LET result == ReplaceRuns(Trim(ToLower(t), "-"))
    IN  IF result = <<>> THEN Placeholder ELSE result

\* a sanitizer whose pattern lacks the +
sanitizeNoPlus(t) ==
    LET result == Trim(ReplaceEach(ToLower(t)), "-")
    IN  IF result = <<>> THEN Placeholder ELSE result

\* a sanitizer without the placeholder
sanitizeNoPlaceholder(t) == Trim(ReplaceRuns(ToLower(t)), "-")

sanitizeFilenameForRegex(t) ==
    LET result == Trim(ReplaceRuns(ToLower(t)), "-")
    IN  IF result = <<>> THEN Placeholder ELSE result

\* regexp.MatchString(`^[a-z0-9]([-a-z0-9]*[a-z0-9])?$`, name)
MatchesSlugPattern(name) ==
    /\ name # <<>>
    /\ IsLowerAlnum(name[1])
    /\ IsLowerAlnum(name[Len(name)])
    /\ \A i \in 1..Len(name) : IsSlugChar(name[i])

validateFilenameRegex(filename) == MatchesSlugPattern(TrimSuffix(filename, DotJson))

(***************************************************************************)
(* Paths.  A directory is "." (the root) or the names on the way down from  *)
(* the root, separated by "/"; an entry is [dir, name, isDir]; a path       *)
(* relative to a root is [dir, name].                                       *)
(***************************************************************************)
RootDir == <<".">>
SubDir == <<"s","u","b">>
DeepDir == <<"s","u","b","/","x">>

\* byte order of the characters the model uses
CharOrder == <<" ", "!", "-", ".">> \o Digits \o UpperLetters \o <<"_">>
             \o LowerLetters \o <<"U+00C9", "U+00E9", "U+212A">>

\* the place of each character in that order
CharRank == [c \in Range(CharOrder) |-> IndexOf(CharOrder, c)]

RECURSIVE StrLess(_, _)
StrLess(s, t) ==
    IF t = <<>> THEN FALSE
    ELSE IF s = <<>> THEN TRUE
    ELSE IF Head(s) = Head(t) THEN StrLess(Tail(s), Tail(t))
    ELSE CharRank[Head(s)] < CharRank[Head(t)]

RECURSIVE Split(_)
\* the names a directory path is made of
Split(d) ==
    IF \A i \in 1..Len(d) : d[i] # "/" THEN <<d>>
    ELSE LET i == CHOOSE j \in 1..Len(d) : d[j] = "/" /\ \A k \in 1..(j - 1) : d[k] # "/"
         IN  <<SubSeq(d, 1, i - 1)>> \o Split(SubSeq(d, i + 1, Len(d)))

\* the names on the way from the root to the entry
PathKey(f) == IF f.dir = RootDir THEN <<f.name>> ELSE Append(Split(f.dir), f.name)

RECURSIVE KeyLess(_, _)
KeyLess(a, b) ==
    IF b = <<>> THEN FALSE
    ELSE IF a = <<>> THEN TRUE
    ELSE IF Head(a) = Head(b) THEN KeyLess(Tail(a), Tail(b))
    ELSE StrLess(Head(a), Head(b))

\* the order in which filepath.Walk and filepath.Glob list entries: names
\* sorted within each directory, a directory's entries at the directory's place
PathLess(f, g) == KeyLess(PathKey(f), PathKey(g))

RECURSIVE InWalkOrder(_)
InWalkOrder(S) ==
    IF S = {} THEN <<>>
    ELSE LET first == CHOOSE x \in S : \A y \in S \ {x} : PathLess(x, y)
         IN  <<first>> \o InWalkOrder(S \ {first})

\* filepath.Join of two relative directories
Join(a, b) ==
    IF b = RootDir THEN a ELSE IF a = RootDir THEN b ELSE a \o <<"/">> \o b

\* line 67: the output root of a run without --output-dir, seen from the
\* input root; lines 101 and 116: the roots of the two stages under it
MigratedDir == <<".","m","i","g","r","a","t","e","d">>
GrafanaStage ==
    <<"g","r","a","f","a","n","a","-","s","c","h","e","m","a","-","l","a","t","e","s","t">>
PersesStage == <<"p","e","r","s","e","s">>

\* the files of a stage's tree as entries under the input root
Nested(stage, tree) ==
    {[dir |-> Join(Join(MigratedDir, stage), f.dir), name |-> f.name, isDir |-> FALSE] :
        f \in tree}

\* what lies under the input root: with the default output root, what the
\* tool has written lies there too
UnderInputRoot(tree, given, grafana, perses) ==
    IF given THEN tree
    ELSE tree \cup Nested(GrafanaStage, grafana) \cup Nested(PersesStage, perses)

\* filepath.Rel(root, file) for a file found under root
Rel(f) == [dir |-> f.dir, name |-> f.name]

\* filepath.Base
Base(f) == f.name

\* strings.HasSuffix(strings.ToLower(info.Name()), ".json")
HasJSONSuffixFold(name) == HasSuffix(ToLower(name), DotJson)

\* the pattern *.json of filepath.Glob
MatchesGlobJSON(name) == HasSuffix(name, DotJson)

(***************************************************************************)
(* File discovery.                                                         *)
(***************************************************************************)
Collected(err, fs) == [err |-> err, files |-> fs]

\* a discovery that is fatal only when the listing itself fails
DiscoveryFailsOnErrorOnly(got) == got.err

\* lines 230 and 234: the listing failed, or it found nothing
DiscoveryFails(got) == got.err \/ Len(got.files) = 0

\* where a per-file loop stands after its i-th of n iterations
LoopPc(i, n, loop, after) == IF i >= n THEN after ELSE loop

\* the recursive branch of collectJSONFiles
WalkJSONFiles(tree) ==
    InWalkOrder({f \in tree : ~f.isDir /\ HasJSONSuffixFold(f.name)})

\* the non-recursive branch of collectJSONFiles
GlobJSONFiles(tree) ==
    InWalkOrder({f \in tree : f.dir = RootDir /\ MatchesGlobJSON(f.name)})

\* filepath.Walk reports an unreadable root as an error; filepath.Glob ignores
\* I/O errors and matches nothing
collectJSONFiles(tree, rec, readable) ==
    IF rec
    THEN IF readable THEN Collected(FALSE, WalkJSONFiles(tree)) ELSE Collected(TRUE, <<>>)
    ELSE Collected(FALSE, IF readable THEN GlobJSONFiles(tree) ELSE <<>>)

(***************************************************************************)
(* JSON documents.  An object is a function from its keys to values; a     *)
(* value is [t, v]: a string with its characters, a number with the digits *)
(* of its literal, or null.                                                *)
(***************************************************************************)
Str(s) == [t |-> "str", v |-> s]
Num(d) == [t |-> "num", v |-> d]
Null == [t |-> "null", v |-> <<>>]
\* marks a key an object does not have
Absent == [t |-> "absent", v |-> <<>>]

\* the object holding the keys of opts that are not marked absent
MakeDoc(opts) == [k \in {x \in DOMAIN opts : opts[x] # Absent} |-> opts[k]]

\* delete(m, k)
Delete(doc, k) == [x \in DOMAIN doc \ {k} |-> doc[x]]

\* m[k] = val
Set(doc, k, val) == [x \in DOMAIN doc \cup {k} |-> IF x = k THEN val ELSE doc[x]]

DigitVal == [c \in Range(Digits) |-> IndexOf(Digits, c) - 1]

RECURSIVE ParseDigits(_)
ParseDigits(d) ==
    IF d = <<>> THEN 0
    ELSE ParseDigits(SubSeq(d, 1, Len(d) - 1)) * 10 + DigitVal[d[Len(d)]]

RECURSIVE FormatInt(_)
FormatInt(n) ==
    IF n < 10 THEN <<Digits[n + 1]>>
    ELSE FormatInt(n \div 10) \o <<Digits[(n % 10) + 1]>>

\* the eight low decimal digits, zero-padded
Pad8(n) == LET d == FormatInt(n) IN [i \in 1..(8 - Len(d)) |-> "0"] \o d

\* A JSON number decoded into an interface value is a float64 (53 bits of
\* mantissa) and is encoded again as the shortest decimal of that float64.
\* For a non-negative integer literal below 2^54, written hi * 10^8 + lo:
\* up to 2^53 = 90071992 54740992 it is exact, above it rounds to the nearest
\* even integer, a tie going to the multiple of four.
Float64Integer(d) ==
    LET n == Len(d)
        hi == IF n > 8 THEN ParseDigits(SubSeq(d, 1, n - 8)) ELSE 0
        lo == IF n > 8 THEN ParseDigits(SubSeq(d, n - 7, n)) ELSE ParseDigits(d)
        inexact == hi > 90071992 \/ (hi = 90071992 /\ lo > 54740992)
        lo2 == IF inexact /\ lo % 2 = 1
               THEN (IF lo % 4 = 1 THEN lo - 1 ELSE lo + 1)
               ELSE lo
        hi3 == IF lo2 = 100000000 THEN hi + 1 ELSE hi
        lo3 == IF lo2 = 100000000 THEN 0 ELSE lo2
    IN  IF hi3 = 0 THEN FormatInt(lo3) ELSE FormatInt(hi3) \o Pad8(lo3)

\* a value as json.Unmarshal stores it in a map[string]any
DecodeValue(val) == IF val.t = "num" THEN Num(Float64Integer(val.v)) ELSE val

\* json.Unmarshal(data, &m) for m a map[string]any
Unmarshal(doc) == [k \in DOMAIN doc |-> DecodeValue(doc[k])]

\* json.Marshal and json.MarshalIndent: the bytes are the document in a layout
Marshal(doc) == [layout |-> "compact", doc |-> doc]
MarshalIndent(doc) == [layout |-> "indent", doc |-> doc]

\* the object without keys, and no bytes at all
EmptyDoc == <<>>
NoBytes == [layout |-> "none", doc |-> EmptyDoc]

(***************************************************************************)
(* The summary.                                                            *)
(***************************************************************************)
NewSummary(total) ==
    [TotalDashboards |-> total,
     SchemaUpdateSuccess |-> 0, SchemaUpdateFailed |-> <<>>,
     ExportSuccess |-> 0, ExportFailed |-> <<>>,
     MigrationSuccess |-> 0, MigrationFailed |-> <<>>]

NotRendered == [shown |-> FALSE, successRate |-> 0, totalFailures |-> 0, allSucceeded |-> FALSE]

(***************************************************************************)
(* The normalization stage, one file.                                      *)
(***************************************************************************)
ImportErrors == {"read", "parse", "transport", "status", "decode", "no_uid", "no_id"}

\* lines 292-293
StripIdentity(dashboard) == Delete(Delete(dashboard, "id"), "uid")

\* lines 296-299
ImportPayload(dashboard) == [dashboard |-> dashboard, overwrite |-> TRUE]

\* lines 280-304: the body of the POST, from the document of the input file
ImportRequest(doc) == Marshal(ImportPayload(StripIdentity(Unmarshal(doc))))

\* the identifiers the source tool hands out
UIDs == {<<"u","1">>, <<"-","U","_","2">>}

DashboardInfo(uid, file) == [UID |-> uid, RelativePath |-> Rel(file)]

\* a failure that is logged and not recorded
ImportFailureUnrecorded(s, file) == s

\* lines 255-259: the import failed
ImportFailure(s, file) ==
    [s EXCEPT !.SchemaUpdateFailed = Append(@, Base(file))]

\* lines 261-262: the import succeeded
ImportSuccess(s) == [s EXCEPT !.SchemaUpdateSuccess = @ + 1]

\* a record that keeps the base name only
AppendDashboardFlat(dbs, uid, file) ==
    Append(dbs, [UID |-> uid, RelativePath |-> [dir |-> RootDir, name |-> Base(file)]])

\* lines 263-266
AppendDashboard(dbs, uid, file) == Append(dbs, DashboardInfo(uid, file))

\* a loop that gives up at the first file that fails
AfterImportAbort(i, n, ok) == IF ok THEN LoopPc(i, n, "import", "export") ELSE "fatal"

\* lines 245, 258 and 267: "continue", and the end of the loop
AfterImport(i, n, ok) == LoopPc(i, n, "import", "export")

(***************************************************************************)
(* The export stage, one dashboard.                                        *)
(***************************************************************************)
ExportErrors == {"transport", "status", "decode", "no_spec", "mkdir", "write"}

\* the titles the fetched specification may carry; <<>> is no title
Titles == {<<>>, <<"M","y"," ","D">>}

\* time.Now().Format("20060102-1504")
FormatTime(n) == <<"2","0","2","6","1","1","0","5","-","1","5","0", Digits[n + 1]>>

\* fmt.Sprintf("%s-%s.json", slug, timestamp)
FileName(s, now) == s \o <<"-">> \o FormatTime(now) \o DotJson

\* a name that is written as first built
ExportFileNameUnchecked(uid, t, now) ==
    FileName(IF t # <<>> THEN sanitizeFilenameForRegex(t) ELSE uid, now)

\* lines 405-420: the name the export writes
ExportFileName(uid, t, now) ==
    LET sl == IF t # <<>> THEN sanitizeFilenameForRegex(t) ELSE uid
        filename == FileName(sl, now)
    IN  IF validateFilenameRegex(filename) THEN filename
        ELSE FileName(sanitizeFilenameForRegex(uid), now)

\* line 407: spec["title"].(string), <<>> when it is no string or is empty
TitleOf(spec) ==
    IF "title" \in DOMAIN spec /\ spec["title"].t = "str" THEN spec["title"].v ELSE <<>>

\* a uid that is injected only into a specification that has none
InjectUIDIfMissing(spec, uid) ==
    IF "uid" \in DOMAIN spec THEN spec ELSE Set(spec, "uid", Str(uid))

\* line 393
InjectUID(spec, uid) == Set(spec, "uid", Str(uid))

\* filepath.Dir of a path relative to a root
Dir(p) == p.dir

\* a target that is always the stage root
ExportPathFlat(relativePath, filename) == [dir |-> RootDir, name |-> filename]

\* lines 396-403 and 422, relative to the stage-A output root
ExportPath(relativePath, filename) == [dir |-> Dir(relativePath), name |-> filename]

\* os.WriteFile: the file at the path is created or replaced
WriteFile(tree, f) ==
    {g \in tree : ~(g.dir = f.dir /\ g.name = f.name)} \cup {f}

ExportFailure(s, info) ==
    [s EXCEPT !.ExportFailed = Append(@, info.RelativePath.name)]

ExportSuccess(s) == [s EXCEPT !.ExportSuccess = @ + 1]

\* an export stage that hands over to the migration stage directly
AfterExportSkipTools(i, n, ok) == LoopPc(i, n, "exporting", "migrate")

\* lines 351, 356 and 360: "continue", and the end of the loop
AfterExport(i, n, ok) == LoopPc(i, n, "exporting", "download")

(***************************************************************************)
(* The format-migration stage.                                             *)
(***************************************************************************)
MigrateErrors == {"exit", "write"}

\* lines 573-582: the walk of the stage-A output tree
WalkOutputTree(tree) ==
    InWalkOrder({Rel(f) : f \in {g \in tree : HasJSONSuffixFold(g.name)}})

MigrationFailure(s, file) ==
    [s EXCEPT !.MigrationFailed = Append(@, Base(file))]

MigrationSuccess(s) == [s EXCEPT !.MigrationSuccess = @ + 1]

\* lines 603, 608, 620, 629, 651 and 657: "continue", and the end of the loop
AfterMigrate(i, n, ok) == LoopPc(i, n, "migrating", "summary")

(***************************************************************************)
(* The datasource references of a migrated document.  A dashboard is       *)
(* [panels]: for each panel name the plugins of its queries, in order; a    *)
(* plugin is [kind, spec].                                                  *)
(***************************************************************************)
Obj(f) == [t |-> "obj", v |-> f]
Bool(b) == [t |-> "bool", v |-> IF b THEN <<"t">> ELSE <<"f">>]

\* a cleaning that removes the name only
cleanDatasourceNameOnly(flag, plugin) ==
    IF ~flag THEN plugin
    ELSE IF /\ plugin.spec.t = "obj"
            /\ "datasource" \in DOMAIN plugin.spec.v
            /\ plugin.spec.v["datasource"].t = "obj"
    THEN LET datasourceRef == Delete(plugin.spec.v["datasource"].v, "name")
         IN  [plugin EXCEPT !.spec = Obj(Set(plugin.spec.v, "datasource", Obj(datasourceRef)))]
    ELSE plugin

\* lines 727-748; flag is *useDefaultPersesDatasource
cleanDatasourceInPlugin(flag, plugin) ==
    IF ~flag THEN plugin
    ELSE IF /\ plugin.spec.t = "obj"
            /\ "datasource" \in DOMAIN plugin.spec.v
            /\ plugin.spec.v["datasource"].t = "obj"
    THEN LET ref == Delete(Delete(plugin.spec.v["datasource"].v, "default"), "name")
             datasourceRef ==
                 IF "plugin" \in DOMAIN ref /\ ref["plugin"].t = "obj"
                 THEN Set(ref, "plugin", Obj(Delete(ref["plugin"].v, "spec")))
                 ELSE ref
         IN  [plugin EXCEPT !.spec = Obj(Set(plugin.spec.v, "datasource", Obj(datasourceRef)))]
    ELSE plugin

\* lines 716-724, for a document that unmarshalled into a persesv1.Dashboard
removeDatasourceNames(flag, dashboard) ==
    MarshalIndent(
        [panels |-> [p \in DOMAIN dashboard.panels |->
            [i \in 1..Len(dashboard.panels[p]) |->
                cleanDatasourceInPlugin(flag, dashboard.panels[p][i])]]])

\* bytes that always go through the cleaning
MigratedBytesAlwaysCleaned(flag, output, accepted) ==
    IF accepted THEN removeDatasourceNames(flag, output.doc) ELSE output

\* bytes that are dropped when the cleaning cannot parse them
MigratedBytesDropUnparsed(flag, output, accepted) ==
    IF flag
    THEN IF accepted THEN removeDatasourceNames(flag, output.doc) ELSE NoBytes
    ELSE output

\* lines 632-645: cleanedOutput
MigratedBytes(flag, output, accepted) ==
    IF flag
    THEN IF accepted THEN removeDatasourceNames(flag, output.doc) ELSE output
    ELSE output

(***************************************************************************)
(* The report.                                                             *)
(***************************************************************************)
\* a total that leaves the export stage out
TotalFailuresNoExport(s) == Len(s.SchemaUpdateFailed) + Len(s.MigrationFailed)

\* line 698
TotalFailures(s) ==
    Len(s.SchemaUpdateFailed) + Len(s.ExportFailed) + Len(s.MigrationFailed)

\* num / den rounded to the nearest integer, a tie going to the even one
RoundDiv(num, den) ==
    LET q == num \div den
        r == num - q * den
    IN  IF 2 * r > den THEN q + 1
        ELSE IF 2 * r < den THEN q
        ELSE IF q % 2 = 0 THEN q ELSE q + 1

\* lines 699-700: the rate printed with %.1f, in tenths of a percent
SuccessRate(s) ==
    RoundDiv((s.TotalDashboards - TotalFailures(s)) * 1000, s.TotalDashboards)

\* lines 698-706: what the report says
Rendered(s) ==
    [shown |-> TRUE,
     successRate |-> SuccessRate(s),
     totalFailures |-> TotalFailures(s),
     allSucceeded |-> (TotalFailures(s) = 0)]

(***************************************************************************)
(* The run.                                                                *)
(***************************************************************************)
\* what may lie under the input root
Candidates ==
    {[dir |-> RootDir, name |-> <<"A",".","J","S","O","N">>, isDir |-> FALSE],
     [dir |-> RootDir, name |-> <<"a",".","j","s","o","n">>, isDir |-> FALSE],
     [dir |-> RootDir, name |-> <<"n",".","t","x","t">>,     isDir |-> FALSE],
     [dir |-> SubDir,  name |-> <<"a",".","j","s","o","n">>, isDir |-> FALSE]}

\* what an earlier run, at minute 0, may have left in the stage-A output tree
StaleFiles ==
    {[dir |-> d, name |-> ExportFileName(<<"u","1">>, <<"M","y"," ","D">>, 0), uid |-> <<"u","1">>]
        : d \in {RootDir, SubDir}}

SanIdle ==
    /\ sanPc = "idle"
    /\ title = <<>>
    /\ slug = <<>>
    /\ slug2 = <<>>
    /\ valid = FALSE

NoFile == [dir |-> RootDir, name |-> <<>>, bytes |-> NoBytes]

ImpIdle ==
    /\ impPc = "idle"
    /\ impFile = [valid |-> FALSE, doc |-> EmptyDoc]
    /\ impPayload = NoBytes

ExpIdle ==
    /\ expPc = "idle"
    /\ expUid = <<>>
    /\ expRelPath = [dir |-> RootDir, name |-> <<>>]
    /\ expFetched = EmptyDoc
    /\ expFile = NoFile

DsIdle ==
    /\ dsPc = "idle"
    /\ useDefaultPersesDatasource = FALSE
    /\ dsOutput = NoBytes
    /\ dsAccepted = FALSE
    /\ dsWritten = NoBytes
    /\ dsSummary = NewSummary(0)
    /\ dsTree = {}

Init ==
    /\ SanIdle
    /\ ImpIdle
    /\ ExpIdle
    /\ DsIdle
    /\ inputGiven \in BOOLEAN
    /\ outputGiven = TRUE
    /\ cleanUp = FALSE
    /\ teardown = {}
    /\ recursive \in BOOLEAN
    /\ rootReadable \in BOOLEAN
    /\ inputTree \in {t \in SUBSET Candidates : Cardinality(t) <= MaxFiles}
    /\ clock = 1
    /\ pc = "start"
    /\ fatal = "none"
    /\ files = <<>>
    /\ idx = 0
    /\ summary = NewSummary(0)
    /\ dashboards = <<>>
    /\ grafanaTree \in {t \in SUBSET StaleFiles : Cardinality(t) <= MaxStale}
    /\ migFiles = <<>>
    /\ persesTree = {}
    /\ lastWarning = "none"
    /\ rendered = NotRendered
    /\ importLog = <<>>
    /\ exportLog = <<>>
    /\ migrateLog = <<>>
    /\ provisioned = {}

\* a start that does not look at the input directory
ParseFlagsNoCheck ==
    /\ pc = "start"
    /\ pc' = "grafana"
    /\ UNCHANGED <<cfgVars, teardown, provisioned, fatal, files, idx, summary, dashboards, grafanaTree,
                   migFiles, persesTree, lastWarning, rendered, importLog, exportLog,
                   migrateLog, clock>>

\* main, lines 55-68
ParseFlags ==
    /\ pc = "start"
    /\ pc' = IF inputGiven THEN "grafana" ELSE "fatal"
    /\ fatal' = IF inputGiven THEN "none" ELSE "input_dir"
    /\ UNCHANGED <<cfgVars, teardown, provisioned, files, idx, summary, dashboards, grafanaTree, migFiles, persesTree,
                   lastWarning, rendered, importLog, exportLog, migrateLog, clock>>

\* main, lines 87-89
StartGrafana ==
    /\ pc = "grafana"
    /\ \E ok \in BOOLEAN :
          /\ pc' = IF ok THEN "perses" ELSE "fatal"
          /\ provisioned' = IF ok THEN provisioned \cup {"grafana"} ELSE provisioned
          /\ fatal' = IF ok THEN "none" ELSE "grafana"
    /\ UNCHANGED <<cfgVars, teardown, files, idx, summary, dashboards, grafanaTree, migFiles, persesTree,
                   lastWarning, rendered, importLog, exportLog, migrateLog, clock>>

\* main, lines 91-93
StartPerses ==
    /\ pc = "perses"
    /\ \E ok \in BOOLEAN :
          /\ pc' = IF ok THEN "discover" ELSE "fatal"
          /\ provisioned' = IF ok THEN provisioned \cup {"perses"} ELSE provisioned
          /\ fatal' = IF ok THEN "none" ELSE "perses"
    /\ UNCHANGED <<cfgVars, teardown, files, idx, summary, dashboards, grafanaTree, migFiles, persesTree,
                   lastWarning, rendered, importLog, exportLog, migrateLog, clock>>

\* updateGrafanaSchemasToLatestVersion, lines 229-244, and main's lines 95-98
Discover ==
    /\ pc = "discover"
    /\ LET got == collectJSONFiles(UnderInputRoot(inputTree, outputGiven, grafanaTree,
                                                  persesTree),
                                   recursive, rootReadable)
       IN  IF DiscoveryFails(got)
           THEN /\ pc' = "fatal"
                /\ fatal' = "import"
                /\ UNCHANGED <<files, idx, summary>>
           ELSE /\ files' = got.files
                /\ summary' = NewSummary(Len(got.files))
                /\ idx' = 1
                /\ pc' = LoopPc(0, Len(got.files), "import", "export")
                /\ UNCHANGED fatal
    /\ UNCHANGED <<cfgVars, teardown, provisioned, dashboards, grafanaTree, migFiles, persesTree,
                   lastWarning, rendered, importLog, exportLog, migrateLog, clock>>

\* one iteration of the loop of lines 245-267
ImportOne ==
    /\ pc = "import"
    /\ idx <= Len(files)
    /\ LET file == files[idx]
       IN  \/ \E e \in ImportErrors :
                /\ file.isDir => e = "read"
                /\ summary' = ImportFailure(summary, file)
                /\ lastWarning' = e
                /\ importLog' = Append(importLog, [file |-> file, ok |-> FALSE, uid |-> <<>>])
                /\ pc' = AfterImport(idx, Len(files), FALSE)
                /\ UNCHANGED dashboards
           \/ \E uid \in UIDs :
                /\ ~file.isDir
                /\ summary' = ImportSuccess(summary)
                /\ dashboards' = AppendDashboard(dashboards, uid, file)
                /\ importLog' = Append(importLog, [file |-> file, ok |-> TRUE, uid |-> uid])
                /\ pc' = AfterImport(idx, Len(files), TRUE)
                /\ lastWarning' = "none"
    /\ idx' = idx + 1
    /\ UNCHANGED fatal
    /\ UNCHANGED <<cfgVars, teardown, provisioned, files, grafanaTree, migFiles, persesTree, rendered,
                   exportLog, migrateLog, clock>>

\* exportUpdatedGrafanaDashboards, lines 343-349, and main's lines 102-105.
\* os.MkdirAll succeeds on a directory that exists, so it can fail only when
\* the stage-A output tree holds nothing.
ExportBegin ==
    /\ pc = "export"
    /\ \/ /\ idx' = 1
          /\ pc' = LoopPc(0, Len(dashboards), "exporting", "download")
          /\ lastWarning' = "none"
       \/ /\ grafanaTree = {}
          /\ lastWarning' = "export_root"
          /\ pc' = "download"
          /\ UNCHANGED idx
    /\ UNCHANGED <<cfgVars, teardown, provisioned, fatal, files, summary, dashboards, grafanaTree, migFiles, persesTree,
                   rendered, importLog, exportLog, migrateLog, clock>>

\* one iteration of the loop of lines 351-360: exportSingleUpdatedDashboard
ExportOne ==
    /\ pc = "exporting"
    /\ LET info == dashboards[idx]
       IN  \/ \E e \in ExportErrors :
                /\ e = "mkdir" => info.RelativePath.dir # RootDir
                /\ summary' = ExportFailure(summary, info)
                /\ lastWarning' = e
                /\ exportLog' = Append(exportLog,
                       [info |-> info, ok |-> FALSE, out |-> Rel(info.RelativePath)])
                /\ pc' = AfterExport(idx, Len(dashboards), FALSE)
                /\ UNCHANGED <<grafanaTree, clock>>
           \/ \E t \in Titles, now \in clock..MaxClock :
                LET path == ExportPath(info.RelativePath, ExportFileName(info.UID, t, now))
                    out == [dir |-> path.dir, name |-> path.name, uid |-> info.UID]
                IN  /\ clock' = now
                    /\ grafanaTree' = WriteFile(grafanaTree, out)
                    /\ summary' = ExportSuccess(summary)
                    /\ exportLog' = Append(exportLog,
                           [info |-> info, ok |-> TRUE, out |-> Rel(out)])
                    /\ pc' = AfterExport(idx, Len(dashboards), TRUE)
                    /\ lastWarning' = "none"
    /\ idx' = idx + 1
    /\ UNCHANGED fatal
    /\ UNCHANGED <<cfgVars, teardown, provisioned, files, dashboards, migFiles, persesTree, rendered,
                   importLog, migrateLog>>

\* main, lines 107-110
DownloadPercli ==
    /\ pc = "download"
    /\ \E ok \in BOOLEAN :
          /\ pc' = IF ok THEN "login" ELSE "fatal"
          /\ provisioned' = IF ok THEN provisioned \cup {"percli"} ELSE provisioned
          /\ fatal' = IF ok THEN "none" ELSE "download"
    /\ UNCHANGED <<cfgVars, teardown, files, idx, summary, dashboards, grafanaTree, migFiles, persesTree,
                   lastWarning, rendered, importLog, exportLog, migrateLog, clock>>

\* main, lines 112-114
LoginPercli ==
    /\ pc = "login"
    /\ \E ok \in BOOLEAN :
          /\ pc' = IF ok THEN "migrate" ELSE "fatal"
          /\ provisioned' = IF ok THEN provisioned \cup {"session"} ELSE provisioned
          /\ fatal' = IF ok THEN "none" ELSE "login"
    /\ UNCHANGED <<cfgVars, teardown, files, idx, summary, dashboards, grafanaTree, migFiles, persesTree,
                   lastWarning, rendered, importLog, exportLog, migrateLog, clock>>

\* migrateDashboardsToPerses, lines 560-600, and main's lines 116-120.  The
\* executable exists once loginPercli has returned nil.  The walk fails when
\* the stage-A output root could not be created.
MigrateBegin ==
    /\ pc = "migrate"
    /\ \/ /\ lastWarning' = "perses_root"
          /\ pc' = "summary"
          /\ UNCHANGED <<migFiles, idx>>
       \/ LET found == WalkOutputTree(grafanaTree)
          IN  IF found = <<>>
              THEN /\ lastWarning' = "nothing_to_migrate"
                   /\ pc' = "summary"
                   /\ UNCHANGED <<migFiles, idx>>
              ELSE /\ migFiles' = found
                   /\ idx' = 1
                   /\ pc' = "migrating"
                   /\ lastWarning' = "none"
    /\ UNCHANGED <<cfgVars, teardown, provisioned, fatal, files, summary, dashboards, grafanaTree, persesTree,
                   rendered, importLog, exportLog, migrateLog, clock>>

\* one iteration of the loop of lines 603-657
MigrateOne ==
    /\ pc = "migrating"
    /\ LET file == migFiles[idx]
       IN  \/ /\ file.dir # RootDir      \* lines 617-621: os.MkdirAll fails
              /\ lastWarning' = "mkdir"
              /\ migrateLog' = Append(migrateLog, [file |-> file, result |-> "skipped"])
              /\ pc' = AfterMigrate(idx, Len(migFiles), FALSE)
              /\ UNCHANGED <<summary, persesTree>>
           \/ \E e \in MigrateErrors :
                /\ summary' = MigrationFailure(summary, file)
                /\ lastWarning' = e
                /\ migrateLog' = Append(migrateLog, [file |-> file, result |-> "failed"])
                /\ pc' = AfterMigrate(idx, Len(migFiles), FALSE)
                /\ UNCHANGED persesTree
           \/ /\ persesTree' = WriteFile(persesTree, file)
              /\ summary' = MigrationSuccess(summary)
              /\ migrateLog' = Append(migrateLog, [file |-> file, result |-> "ok"])
              /\ pc' = AfterMigrate(idx, Len(migFiles), TRUE)
              /\ lastWarning' = "none"
    /\ idx' = idx + 1
    /\ UNCHANGED fatal
    /\ UNCHANGED <<cfgVars, teardown, provisioned, files, dashboards, grafanaTree, migFiles, rendered,
                   importLog, exportLog, clock>>

\* displayMigrationSummary, and main's lines 123-126
DisplaySummary ==
    /\ pc = "summary"
    /\ rendered' = Rendered(summary)
    /\ pc' = "done"
    /\ UNCHANGED <<cfgVars, teardown, provisioned, fatal, files, idx, summary, dashboards, grafanaTree, migFiles, persesTree,
                   lastWarning, importLog, exportLog, migrateLog, clock>>

Next ==
    \/ ParseFlags
    \/ StartGrafana
    \/ StartPerses
    \/ Discover
    \/ ImportOne
    \/ ExportBegin
    \/ ExportOne
    \/ DownloadPercli
    \/ LoginPercli
    \/ MigrateBegin
    \/ MigrateOne
    \/ DisplaySummary

Spec == Init /\ [][Next]_vars

RunIdle ==
    /\ inputGiven = FALSE
    /\ outputGiven = FALSE
    /\ cleanUp = FALSE
    /\ teardown = {}
    /\ recursive = FALSE
    /\ rootReadable = FALSE
    /\ inputTree = {}
    /\ clock = 0
    /\ pc = "idle"
    /\ fatal = "none"
    /\ files = <<>>
    /\ idx = 0
    /\ summary = NewSummary(0)
    /\ dashboards = <<>>
    /\ grafanaTree = {}
    /\ migFiles = <<>>
    /\ persesTree = {}
    /\ lastWarning = "none"
    /\ rendered = NotRendered
    /\ importLog = <<>>
    /\ exportLog = <<>>
    /\ migrateLog = <<>>
    /\ provisioned = {}

(***************************************************************************)
(* The run to the exit of the process, with the cleanup flag on or off:    *)
(* when main returns its deferred function runs; log.Fatal calls os.Exit,  *)
(* which runs no deferred function.                                        *)
(***************************************************************************)
\* the containers of lines 73 and 79
Services == {"grafana", "perses"}

TearInit ==
    /\ SanIdle
    /\ ImpIdle
    /\ ExpIdle
    /\ DsIdle
    /\ inputGiven \in BOOLEAN
    /\ outputGiven = TRUE
    /\ cleanUp \in BOOLEAN
    /\ teardown = {}
    /\ recursive \in BOOLEAN
    /\ rootReadable \in BOOLEAN
    /\ inputTree \in {t \in SUBSET Candidates : Cardinality(t) <= MaxTearFiles}
    /\ clock = 1
    /\ pc = "start"
    /\ fatal = "none"
    /\ files = <<>>
    /\ idx = 0
    /\ summary = NewSummary(0)
    /\ dashboards = <<>>
    /\ grafanaTree = {}
    /\ migFiles = <<>>
    /\ persesTree = {}
    /\ lastWarning = "none"
    /\ rendered = NotRendered
    /\ importLog = <<>>
    /\ exportLog = <<>>
    /\ migrateLog = <<>>
    /\ provisioned = {}

\* main returns (line 127) and the deferred function of lines 71-85 runs
DeferredCleanup ==
    /\ pc = "done"
    /\ pc' = "exited"
    /\ IF cleanUp
       THEN /\ teardown' = Services
            /\ lastWarning' \in {"none", "teardown"}    \* lines 74 and 80
       ELSE UNCHANGED <<teardown, lastWarning>>
    /\ UNCHANGED <<cfgVars, provisioned, fatal, files, idx, summary, dashboards, grafanaTree,
                   migFiles, persesTree, rendered, importLog, exportLog, migrateLog, clock>>

TearNext ==
    \/ ParseFlags
    \/ StartGrafana
    \/ StartPerses
    \/ Discover
    \/ ImportOne
    \/ ExportBegin
    \/ ExportOne
    \/ DownloadPercli
    \/ LoginPercli
    \/ MigrateBegin
    \/ MigrateOne
    \/ DisplaySummary
    \/ DeferredCleanup

TearSpec == TearInit /\ [][TearNext]_vars

(***************************************************************************)
(* The sanitizer on its own: a title is drawn, sanitized, validated and    *)
(* sanitized again.                                                        *)
(***************************************************************************)
SanAlphabet == {"a", "B", "7", "-", "_", " ", ".", "U+00C9", "U+212A"}

RECURSIVE StringsUpTo(_, _)
StringsUpTo(A, n) ==
    IF n = 0 THEN {<<>>}
    ELSE LET shorter == StringsUpTo(A, n - 1)
         IN  shorter \cup {<<c>> \o s : c \in A, s \in {x \in shorter : Len(x) = n - 1}}

ExampleTitle == <<"M","y"," ","D","a","s","h","b","o","a","r","d","!"," ","v","2",".","0">>
ExampleSlug == <<"m","y","-","d","a","s","h","b","o","a","r","d","-","v","2","-","0">>

SanTitles == StringsUpTo(SanAlphabet, MaxLen) \cup {ExampleTitle, Placeholder}

SanInit ==
    /\ RunIdle
    /\ ImpIdle
    /\ ExpIdle
    /\ DsIdle
    /\ sanPc = "input"
    /\ title \in SanTitles
    /\ slug = <<>>
    /\ slug2 = <<>>
    /\ valid = FALSE

Sanitize ==
    /\ UNCHANGED <<runVars, impVars, expVars, dsVars>>
    /\ sanPc = "input"
    /\ slug' = sanitizeFilenameForRegex(title)
    /\ valid' = validateFilenameRegex(slug')
    /\ sanPc' = "once"
    /\ UNCHANGED <<title, slug2>>

SanitizeAgain ==
    /\ UNCHANGED <<runVars, impVars, expVars, dsVars>>
    /\ sanPc = "once"
    /\ slug2' = sanitizeFilenameForRegex(slug)
    /\ sanPc' = "twice"
    /\ UNCHANGED <<title, slug, valid>>

SanNext == Sanitize \/ SanitizeAgain

SanSpec == SanInit /\ [][SanNext]_vars

(***************************************************************************)
(* Discovery on its own: the run up to the end of collectJSONFiles, over    *)
(* input trees with mixed-case names, a directory named like a JSON file    *)
(* and files two levels down.                                               *)
(***************************************************************************)
DiscCandidates ==
    {[dir |-> RootDir, name |-> <<"a",".","j","s","o","n">>, isDir |-> FALSE],
     [dir |-> RootDir, name |-> <<"A",".","J","S","O","N">>, isDir |-> FALSE],
     [dir |-> RootDir, name |-> <<"b",".","J","s","o","n">>, isDir |-> FALSE],
     [dir |-> RootDir, name |-> <<"n",".","t","x","t">>,     isDir |-> FALSE],
     [dir |-> RootDir, name |-> <<"d",".","j","s","o","n">>, isDir |-> TRUE],
     [dir |-> SubDir,  name |-> <<"a",".","j","s","o","n">>, isDir |-> FALSE],
     [dir |-> DeepDir, name |-> <<"c",".","J","S","O","N">>, isDir |-> FALSE],
     [dir |-> DeepDir, name |-> <<"n",".","t","x","t">>,     isDir |-> FALSE]}

DiscInit ==
    /\ SanIdle
    /\ ImpIdle
    /\ ExpIdle
    /\ DsIdle
    /\ inputGiven = TRUE
    /\ outputGiven = TRUE
    /\ cleanUp = FALSE
    /\ teardown = {}
    /\ recursive \in BOOLEAN
    /\ rootReadable \in BOOLEAN
    /\ inputTree \in {t \in SUBSET DiscCandidates : Cardinality(t) <= MaxFiles}
    /\ clock = 1
    /\ pc = "start"
    /\ fatal = "none"
    /\ files = <<>>
    /\ idx = 0
    /\ summary = NewSummary(0)
    /\ dashboards = <<>>
    /\ grafanaTree = {}
    /\ migFiles = <<>>
    /\ persesTree = {}
    /\ lastWarning = "none"
    /\ rendered = NotRendered
    /\ importLog = <<>>
    /\ exportLog = <<>>
    /\ migrateLog = <<>>
    /\ provisioned = {}

DiscNext ==
    \/ ParseFlags
    \/ StartGrafana
    \/ StartPerses
    \/ Discover

DiscSpec == DiscInit /\ [][DiscNext]_vars

(***************************************************************************)
(* A second run on the same input root, up to the end of discovery: the    *)
(* output trees hold what a first run over the same input wrote.           *)
(***************************************************************************)
\* what the first run discovered: nothing had been written yet
FirstRunFiles(tree, rec) == collectJSONFiles(tree, rec, TRUE).files

\* what the first run wrote at most: one export for each file it discovered
FirstRunExports(tree, rec) ==
    {[dir |-> p.dir, name |-> p.name, uid |-> <<"u","1">>] :
        p \in {ExportPath(Rel(f), ExportFileName(<<"u","1">>, <<"M","y"," ","D">>, 0)) :
                  f \in Range(FirstRunFiles(tree, rec))}}

RerunInit ==
    /\ SanIdle
    /\ ImpIdle
    /\ ExpIdle
    /\ DsIdle
    /\ inputGiven = TRUE
    /\ outputGiven \in BOOLEAN
    /\ cleanUp = FALSE
    /\ teardown = {}
    /\ recursive \in BOOLEAN
    /\ rootReadable = TRUE
    /\ inputTree \in {t \in SUBSET Candidates : Cardinality(t) <= MaxRerunFiles}
    /\ clock = 1
    /\ pc = "start"
    /\ fatal = "none"
    /\ files = <<>>
    /\ idx = 0
    /\ summary = NewSummary(0)
    /\ dashboards = <<>>
    /\ grafanaTree \in SUBSET FirstRunExports(inputTree, recursive)
    /\ migFiles = <<>>
    /\ persesTree \in SUBSET {Rel(g) : g \in grafanaTree}
    /\ lastWarning = "none"
    /\ rendered = NotRendered
    /\ importLog = <<>>
    /\ exportLog = <<>>
    /\ migrateLog = <<>>
    /\ provisioned = {}

RerunNext ==
    \/ ParseFlags
    \/ StartGrafana
    \/ StartPerses
    \/ Discover

RerunSpec == RerunInit /\ [][RerunNext]_vars

(***************************************************************************)
(* importDashboardToGrafana on its own: one input file, one call.          *)
(***************************************************************************)
OldUid == <<"o","l","d">>
BigInteger == <<"9","0","0","7","1","9","9","2","5","4","7","4","0","9","9","3">>

\* the documents an input file may hold; an invalid file holds none
ImportFiles ==
    {[valid |-> FALSE, doc |-> EmptyDoc]} \cup
    {[valid |-> TRUE, doc |-> MakeDoc([id |-> i, uid |-> u, title |-> t, version |-> n])] :
        i \in {Absent, Null, Num(<<"7">>)},
        u \in {Absent, Null, Str(OldUid)},
        t \in {Absent, Str(<<"M","y"," ","D">>)},
        n \in {Absent, Num(<<"1">>), Num(BigInteger)}}

ImpInit ==
    /\ RunIdle
    /\ SanIdle
    /\ ExpIdle
    /\ DsIdle
    /\ impPc = "call"
    /\ impFile \in ImportFiles
    /\ impPayload = NoBytes

\* importDashboardToGrafana; impPc becomes "ok" or the error it returns
ImportDashboard ==
    /\ impPc = "call"
    /\ \/ /\ impPc' = "read"
          /\ UNCHANGED impPayload
       \/ /\ ~impFile.valid
          /\ impPc' = "parse"
          /\ UNCHANGED impPayload
       \/ /\ impFile.valid
          /\ impPayload' = ImportRequest(impFile.doc)
          /\ impPc' \in {"transport", "status", "decode", "no_uid", "no_id", "ok"}
    /\ UNCHANGED <<impFile, sanVars, expVars, dsVars, runVars>>

ImpNext == ImportDashboard

ImpSpec == ImpInit /\ [][ImpNext]_vars

(***************************************************************************)
(* exportSingleUpdatedDashboard on its own: one dashboard, one call.       *)
(***************************************************************************)
MaxUidLen == 2      \* longest identifier drawn for the export on its own

ExpUIDs == StringsUpTo(SanAlphabet, MaxUidLen) \cup UIDs

\* the specifications a fetched response may carry
FetchedSpecs ==
    {MakeDoc([title |-> t, uid |-> u, schemaVersion |-> Num(<<"4","1">>)]) :
        t \in {Absent, Null, Num(<<"3">>), Str(<<>>), Str(<<"-">>), Str(<<"M","y"," ","D">>)},
        u \in {Absent, Str(OldUid)}}

ExpInit ==
    /\ RunIdle
    /\ SanIdle
    /\ ImpIdle
    /\ DsIdle
    /\ expPc = "call"
    /\ expUid \in ExpUIDs
    /\ expRelPath \in {[dir |-> d, name |-> <<"a",".","j","s","o","n">>] : d \in {RootDir, SubDir}}
    /\ expFetched = EmptyDoc
    /\ expFile = NoFile

\* exportSingleUpdatedDashboard; expPc becomes "ok" or the error it returns
ExportSingle ==
    /\ expPc = "call"
    /\ \/ /\ expPc' \in {"transport", "status", "decode", "no_spec"}
          /\ UNCHANGED <<expFetched, expFile>>
       \/ \E fetched \in FetchedSpecs, now \in 0..MaxClock :
             LET spec == InjectUID(Unmarshal(fetched), expUid)
                 filename == ExportFileName(expUid, TitleOf(spec), now)
                 path == ExportPath(expRelPath, filename)
             IN  /\ expFetched' = fetched
                 /\ \/ /\ Dir(expRelPath) # RootDir
                       /\ expPc' = "mkdir"
                       /\ UNCHANGED expFile
                    \/ /\ expPc' = "write"
                       /\ UNCHANGED expFile
                    \/ /\ expPc' = "ok"
                       /\ expFile' = [dir |-> path.dir, name |-> path.name,
                                      bytes |-> MarshalIndent(spec)]
    /\ UNCHANGED <<expUid, expRelPath, sanVars, impVars, dsVars, runVars>>

ExpNext == ExportSingle

ExpSpec == ExpInit /\ [][ExpNext]_vars

(***************************************************************************)
(* The datasource handling on its own: one file of the migration loop,     *)
(* from the call of percli to the write.                                    *)
(***************************************************************************)
MaxQueries == 1     \* most queries of a panel

PanelNames == {"p1", "p2"}

Prometheus == <<"p","r","o","m">>
ProdInstance == <<"p","r","o","d">>

\* the datasource reference objects
DatasourceRefs ==
    {MakeDoc([kind |-> Str(Prometheus), name |-> Absent, default |-> Absent, plugin |-> Absent]),
     MakeDoc([kind |-> Str(Prometheus), name |-> Str(ProdInstance), default |-> Bool(TRUE),
              plugin |-> Absent]),
     MakeDoc([kind |-> Str(Prometheus), name |-> Str(ProdInstance), default |-> Absent,
              plugin |-> Obj([kind |-> Str(Prometheus), spec |-> Obj(EmptyDoc)])]),
     MakeDoc([kind |-> Str(Prometheus), name |-> Absent, default |-> Bool(FALSE),
              plugin |-> Obj([kind |-> Str(Prometheus)])])}

\* what the spec of a query's plugin may be
PluginSpecs ==
    {Null,
     Obj([query |-> Str(<<"u","p">>)]),
     Obj([query |-> Str(<<"u","p">>), datasource |-> Str(ProdInstance)])}
    \cup {Obj([query |-> Str(<<"u","p">>), datasource |-> Obj(r)]) : r \in DatasourceRefs}

Plugins == {[kind |-> <<"q">>, spec |-> sp] : sp \in PluginSpecs}

QueryLists == UNION {[1..n -> Plugins] : n \in 0..MaxQueries}

\* standard output that is no JSON document: no byte at all, or text; there
\* is no panel to find in it
NotJSONOutputs ==
    {[layout |-> l, doc |-> [panels |-> EmptyDoc]] : l \in {"empty", "text"}}

\* what percli may write on standard output when it exits with status zero
PercliOutputs ==
    {[layout |-> "percli", doc |-> [panels |-> ps]] :
        ps \in UNION {[names -> QueryLists] : names \in SUBSET PanelNames}}
    \cup NotJSONOutputs

\* line 711: json.Unmarshal into a persesv1.Dashboard needs a JSON document
IsJSON(output) == output.layout = "percli"

\* the file of the stage-A output tree that the iteration is about
MigratedFile == [dir |-> SubDir, name |-> <<"a", ".", "j", "s", "o", "n">>]

DsInit ==
    /\ RunIdle
    /\ SanIdle
    /\ ImpIdle
    /\ ExpIdle
    /\ dsPc = "migrate"
    /\ useDefaultPersesDatasource \in BOOLEAN
    /\ dsOutput = NoBytes
    /\ dsAccepted = FALSE
    /\ dsWritten = NoBytes
    /\ dsSummary = NewSummary(1)
    /\ dsTree = {}

\* lines 603-657 for one file; dsPc becomes "ok" or the failure
MigrateFile ==
    /\ dsPc = "migrate"
    /\ \/ /\ dsPc' = "mkdir"       \* lines 617-621: os.MkdirAll fails
          /\ UNCHANGED <<dsOutput, dsAccepted, dsWritten, dsSummary, dsTree>>
       \/ /\ dsPc' = "exit"        \* lines 624-630: cmd.Output() returns an error
          /\ dsSummary' = MigrationFailure(dsSummary, MigratedFile)
          /\ UNCHANGED <<dsOutput, dsAccepted, dsWritten, dsTree>>
       \/ \E output \in PercliOutputs, accepted \in BOOLEAN :
             /\ accepted => IsJSON(output)
             /\ dsOutput' = output
             /\ dsAccepted' = accepted
             /\ \/ /\ dsPc' = "write"     \* lines 648-652: os.WriteFile fails
                   /\ dsSummary' = MigrationFailure(dsSummary, MigratedFile)
                   /\ UNCHANGED <<dsWritten, dsTree>>
                \/ /\ dsPc' = "ok"        \* lines 654-656
                   /\ dsWritten' = MigratedBytes(useDefaultPersesDatasource, output, accepted)
                   /\ dsTree' = WriteFile(dsTree, MigratedFile)
                   /\ dsSummary' = MigrationSuccess(dsSummary)
    /\ UNCHANGED <<useDefaultPersesDatasource, sanVars, impVars, expVars, runVars>>

DsNext == MigrateFile

DsSpec == DsInit /\ [][DsNext]_vars

(***************************************************************************)
(* Properties.                                                             *)
(***************************************************************************)
Indices(q) == 1..Len(q)
IsOk(l) == l.ok
NotOk(l) == ~l.ok
Succeeded(log) == SelectSeq(log, IsOk)
Failed(log) == SelectSeq(log, NotOk)
NotMigrated(m) == m.result # "ok"
Attempted(m) == m.result # "skipped"

BeforeImport == {"start", "grafana", "perses", "discover"}
PastImport == {"export", "exporting", "download", "login", "migrate", "migrating",
               "summary", "done"}
PastExport == {"download", "login", "migrate", "migrating", "summary", "done"}
PastMigrate == {"summary", "done"}
PerFileSteps == {"import", "exporting", "migrating"}

\* C1: at every point of a run and for each of the three stages, the stage's
\* success count plus the length of its failed-item list is at most
\* TotalDashboards, also when the stage-A output tree held files before the run.
C1_StageCountsWithinTotal ==
    pc \in PastImport \cup {"import"} =>
        /\ summary.SchemaUpdateSuccess + Len(summary.SchemaUpdateFailed)
              <= summary.TotalDashboards
        /\ summary.ExportSuccess + Len(summary.ExportFailed)
              <= summary.TotalDashboards
        /\ summary.MigrationSuccess + Len(summary.MigrationFailed)
              <= summary.TotalDashboards

\* C2: the export stage receives exactly the files whose import succeeded: one
\* DashboardInfo per successful import, in discovery order, each with the
\* identifier returned for that file and that file's path relative to the
\* input root; every export call is for the next of these records; and a file
\* whose import failed is never exported.
C2_ExportReceivesImported ==
    LET good == Succeeded(importLog)
    IN  /\ \A k \in Indices(importLog) : importLog[k].file = files[k]
        /\ Len(dashboards) = Len(good)
        /\ \A k \in Indices(good) :
              /\ dashboards[k].UID = good[k].uid
              /\ dashboards[k].RelativePath.dir = good[k].file.dir
              /\ dashboards[k].RelativePath.name = good[k].file.name
        /\ Len(exportLog) <= Len(dashboards)
        /\ \A k \in Indices(exportLog) : exportLog[k].info = dashboards[k]
        /\ pc \in PastExport => Len(exportLog) \in {0, Len(dashboards)}
        /\ \A k \in Indices(exportLog), j \in Indices(importLog) :
              ~importLog[j].ok =>
                  \/ exportLog[k].info.RelativePath.dir # importLog[j].file.dir
                  \/ exportLog[k].info.RelativePath.name # importLog[j].file.name

\* a run in which the first file failed to import, two later ones (one of them
\* in a subdirectory) succeeded, and both were handed to the exporter
C2_Witness ==
    /\ pc = "download"
    /\ Len(importLog) = 3
    /\ ~importLog[1].ok /\ importLog[2].ok /\ importLog[3].ok
    /\ importLog[3].file.dir = SubDir
    /\ importLog[2].uid # importLog[3].uid
    /\ Len(exportLog) = 2
    /\ exportLog[2].info.RelativePath.dir = SubDir

\* C3: when the migration stage has run its loop, the files it processed are
\* exactly the files the export stage of this run exported successfully, with
\* one migration attempt per successful export.
C3_MigratesExactlyExported ==
    (pc \in PastMigrate /\ migFiles # <<>>) =>
        /\ Range(migFiles) = {e.out : e \in Range(Succeeded(exportLog))}
        /\ Len(SelectSeq(migrateLog, Attempted)) = Len(Succeeded(exportLog))

\* C4: a per-file failure never terminates the run: no step of a per-file loop
\* ends the run; once a stage is over every file that entered it has been
\* handled; a run that is not over can take a step; and a run that ends
\* without a fatal error has rendered the summary.
C4_PerFileFailureNeverTerminates ==
    /\ [][(pc \in PerFileSteps) => (pc' \notin {"fatal", "done"})]_vars
    /\ [](pc \in PastImport => Len(importLog) = Len(files))
    /\ [](pc \in PastExport /\ exportLog # <<>> => Len(exportLog) = Len(dashboards))
    /\ [](pc \in PastMigrate /\ migFiles # <<>> => Len(migrateLog) = Len(migFiles))
    /\ [](pc = "fatal" => fatal \in {"input_dir", "grafana", "perses", "import",
                                     "download", "login"})
    /\ [](fatal = "import" => importLog = <<>>)
    /\ [](pc \notin {"fatal", "done"} => ENABLED Next)
    /\ [](pc = "done" => rendered.shown)

\* a finished run with a failure recorded at each of the three stages, the
\* failed import being followed by a successful one
C4_Witness ==
    /\ pc = "done"
    /\ rendered.shown
    /\ summary.SchemaUpdateFailed # <<>>
    /\ summary.ExportFailed # <<>>
    /\ summary.MigrationFailed # <<>>
    /\ ~importLog[1].ok
    /\ importLog[Len(importLog)].ok

\* C5: every file that entered a stage and did not end as a success of that
\* stage has its name on that stage's failed-item list, in the order of the
\* failures.  For the migration stage this is stated of the runs in which the
\* stage found only files this run exported.
C5_EveryFailureCounted ==
    LET badImports == Failed(importLog)
        badExports == Failed(exportLog)
        badMigrations == SelectSeq(migrateLog, NotMigrated)
        ownFilesOnly == Range(migFiles) \subseteq {e.out : e \in Range(Succeeded(exportLog))}
    IN  /\ summary.SchemaUpdateFailed = [k \in Indices(badImports) |-> badImports[k].file.name]
        /\ summary.ExportFailed =
              [k \in Indices(badExports) |-> badExports[k].info.RelativePath.name]
        /\ ownFilesOnly =>
              summary.MigrationFailed =
                  [k \in Indices(badMigrations) |-> badMigrations[k].file.name]

\* C6: if discovery cannot read the input root or finds no matching file, in
\* either mode, the run ends fatally with no import call, no export, no
\* migration and no summary.
C6_EmptyDiscoveryIsFatal ==
    LET matching(f) == IF recursive THEN ~f.isDir /\ HasJSONSuffixFold(f.name)
                       ELSE f.dir = RootDir /\ MatchesGlobJSON(f.name)
    IN  (~rootReadable \/ ~\E f \in inputTree : matching(f)) =>
            /\ pc \in BeforeImport \cup {"fatal"}
            /\ importLog = <<>>
            /\ exportLog = <<>>
            /\ migrateLog = <<>>
            /\ grafanaTree \subseteq StaleFiles
            /\ persesTree = {}
            /\ ~rendered.shown

\* a non-recursive run over a readable root whose only .json file lies in a
\* subdirectory, ended by the discovery
C6_Witness ==
    /\ pc = "fatal"
    /\ fatal = "import"
    /\ rootReadable
    /\ ~recursive
    /\ inputTree # {}
    /\ \E f \in inputTree : f.dir = SubDir

\* C7: after the normalization stage TotalDashboards is the number of
\* discovered files, all of them named *.json; each was submitted for import
\* exactly once, in order; SchemaUpdateSuccess counts the imports that
\* succeeded and SchemaUpdateFailed holds the base names of those that failed.
C7_NormalizationCounts ==
    pc \in PastImport =>
        LET bad == Failed(importLog)
        IN  /\ summary.TotalDashboards = Len(files)
            /\ Len(files) = Cardinality(Range(files))
            /\ \A k \in Indices(files) : HasJSONSuffixFold(files[k].name)
            /\ Len(importLog) = Len(files)
            /\ \A k \in Indices(files) : importLog[k].file = files[k]
            /\ summary.SchemaUpdateSuccess = Len(importLog) - Len(bad)
            /\ summary.SchemaUpdateFailed = [k \in Indices(bad) |-> bad[k].file.name]
            /\ Len(dashboards) = summary.SchemaUpdateSuccess

\* three discovered files, the last of which drew a non-200 response
C7_Witness ==
    /\ pc = "export"
    /\ lastWarning = "status"
    /\ summary.TotalDashboards = 3
    /\ summary.SchemaUpdateSuccess = 2
    /\ Len(summary.SchemaUpdateFailed) = 1
    /\ Len(dashboards) = 2
    /\ \E f \in inputTree : ~HasJSONSuffixFold(f.name)

(***************************************************************************)
(* Properties of the sanitizer.                                            *)
(***************************************************************************)
\* C8: sanitizeFilenameForRegex is idempotent: sanitizing its output again
\* gives the same output, also when the output is the placeholder.
C8_SanitizeIdempotent == sanPc = "twice" => slug2 = slug

\* a title of punctuation only, sanitized twice to the placeholder
C8_Witness ==
    /\ sanPc = "twice"
    /\ title = <<"-", " ", ".">>
    /\ slug = Placeholder
    /\ slug2 = Placeholder

\* C9: every output of sanitizeFilenameForRegex is accepted by
\* validateFilenameRegex: it is not empty and matches
\* ^[a-z0-9]([-a-z0-9]*[a-z0-9])?$, the placeholder included.
C9_SanitizedIsValid ==
    sanPc \in {"once", "twice"} =>
        /\ valid
        /\ slug # <<>>
        /\ slug[1] # "-" /\ slug[Len(slug)] # "-"
        /\ \A i \in Indices(slug) : slug[i] \in LowerAlnumSet \cup {"-"}

\* the empty title, sanitized to the placeholder and accepted
C9_Witness ==
    /\ sanPc = "once"
    /\ title = <<>>
    /\ slug = Placeholder
    /\ valid

\* the reference: the maximal runs of [a-z0-9] of the lowercased input, in
\* order, a single hyphen between two of them; "dashboard" when there is none
RECURSIVE Flatten(_)
Flatten(pieces) ==
    IF pieces = <<>> THEN <<>> ELSE Head(pieces) \o Flatten(Tail(pieces))

RefSanitize(t) ==
    LET low == [i \in Indices(t) |-> ToLowerChar(t[i])]
        keep == {i \in Indices(t) : low[i] \in LowerAlnumSet}
        piece(i) ==
            IF i \notin keep THEN <<>>
            ELSE IF (i - 1) \notin keep /\ (\E j \in keep : j < i) THEN <<"-", low[i]>>
            ELSE <<low[i]>>
    IN  IF keep = {} THEN Placeholder
        ELSE Flatten([i \in Indices(t) |-> piece(i)])

\* C10: sanitizeFilenameForRegex equals the reference (lowercase, every maximal
\* run outside [a-z0-9] becomes one hyphen, leading and trailing hyphens are
\* stripped, "dashboard" when nothing is left); "My Dashboard! v2.0" gives
\* "my-dashboard-v2-0", "" gives "dashboard", and no output has two adjacent
\* hyphens.
C10_SanitizeMatchesReference ==
    sanPc \in {"once", "twice"} =>
        /\ slug = RefSanitize(title)
        /\ title = ExampleTitle => slug = ExampleSlug
        /\ title = <<>> => slug = Placeholder
        /\ \A i \in 1..(Len(slug) - 1) : ~(slug[i] = "-" /\ slug[i + 1] = "-")

\* the example title, sanitized
C10_Witness ==
    /\ sanPc = "once"
    /\ title = ExampleTitle
    /\ slug = ExampleSlug

(***************************************************************************)
(* Properties of the export of one dashboard.                              *)
(***************************************************************************)
\* C11: every filename the exporter writes, with its .json extension removed,
\* matches ^[a-z0-9]([-a-z0-9]*[a-z0-9])?$, for every title (a string, empty,
\* absent or no string) and every identifier: the name is built from the
\* sanitized title, or from the identifier when there is no title, and from the
\* sanitized identifier when the name built from the identifier does not match.
C11_WrittenNameMatchesPattern ==
    expPc = "ok" =>
        LET name == expFile.name
            base == SubSeq(name, 1, Len(name) - Len(DotJson))
        IN  /\ Len(name) > Len(DotJson)
            /\ SubSeq(name, Len(base) + 1, Len(name)) = DotJson
            /\ base[1] \in LowerAlnumSet
            /\ base[Len(base)] \in LowerAlnumSet
            /\ \A i \in Indices(base) : base[i] \in LowerAlnumSet \cup {"-"}
            /\ LET t == IF "title" \in DOMAIN expFetched /\ expFetched["title"].t = "str"
                         THEN expFetched["title"].v ELSE <<>>
                   uidFits == /\ expUid # <<>>
                              /\ expUid[1] \in LowerAlnumSet
                              /\ \A i \in Indices(expUid) : expUid[i] \in LowerAlnumSet \cup {"-"}
                   stamp == Len(FormatTime(0)) + 1
               IN  SubSeq(base, 1, Len(base) - stamp) =
                       IF t # <<>> THEN RefSanitize(t)
                       ELSE IF uidFits THEN expUid
                       ELSE RefSanitize(expUid)

\* a dashboard without a title whose identifier starts with a hyphen and has an
\* uppercase letter: the name is built from the sanitized identifier
C11_Witness ==
    /\ expPc = "ok"
    /\ expUid = <<"-", "B">>
    /\ "title" \notin DOMAIN expFetched
    /\ expFile.name = FileName(<<"b">>, 0)

\* C12: the top-level uid of the exported specification is the identifier the
\* export was called with, which is the one the import returned (C2),
\* whatever uid the fetched specification carried.
C12_ExportedUidIsImportUid ==
    expPc = "ok" =>
        /\ "uid" \in DOMAIN expFile.bytes.doc
        /\ expFile.bytes.doc["uid"].t = "str"
        /\ expFile.bytes.doc["uid"].v = expUid

\* a fetched specification that carries another uid
C12_Witness ==
    /\ expPc = "ok"
    /\ "uid" \in DOMAIN expFetched
    /\ expFetched["uid"].v = OldUid
    /\ expUid = <<"-","U","_","2">>
    /\ expFile.bytes.doc["uid"].v = expUid

(***************************************************************************)
(* Properties of the run, continued.                                       *)
(***************************************************************************)
\* C13: a file discovered in directory D under the input root and exported is
\* written in directory D of the stage-A output tree, and a file of that tree
\* that is migrated is written under the same directory and the same name in
\* the stage-B output tree.
C13_RelativePathPreserved ==
    /\ \A k \in Indices(exportLog) :
          exportLog[k].ok =>
              LET e == exportLog[k]
              IN  /\ e.out.dir = e.info.RelativePath.dir
                  /\ \E j \in Indices(importLog) :
                        /\ importLog[j].ok
                        /\ importLog[j].file.dir = e.out.dir
                        /\ importLog[j].file.name = e.info.RelativePath.name
                  /\ \E g \in grafanaTree : g.dir = e.out.dir /\ g.name = e.out.name
    /\ \A m \in Indices(migrateLog) :
          migrateLog[m].result = "ok" =>
              LET f == migrateLog[m].file
              IN  /\ \E g \in grafanaTree : g.dir = f.dir /\ g.name = f.name
                  /\ \E q \in persesTree : q.dir = f.dir /\ q.name = f.name

\* a finished recursive run with a file of the root and a file of the
\* subdirectory, both through all stages
C13_Witness ==
    /\ pc = "done"
    /\ recursive
    /\ \E k \in Indices(exportLog) : exportLog[k].ok /\ exportLog[k].out.dir = SubDir
    /\ \E k \in Indices(exportLog) : exportLog[k].ok /\ exportLog[k].out.dir = RootDir
    /\ \E q \in persesTree : q.dir = SubDir
    /\ \E q \in persesTree : q.dir = RootDir
    /\ grafanaTree \cap StaleFiles = {}

\* C18: the report gives the success rate (TotalDashboards - F) / TotalDashboards
\* for F the sum of the lengths of the three failed-item lists, says "all
\* succeeded" exactly when F = 0, and otherwise reports N = F.
C18_ReportedRateAndStatus ==
    rendered.shown =>
        LET T == summary.TotalDashboards
            F == Len(summary.SchemaUpdateFailed) + Len(summary.ExportFailed)
                     + Len(summary.MigrationFailed)
            off == rendered.successRate * T - (T - F) * 1000
        IN  /\ T > 0
            /\ 2 * off <= T /\ 2 * off >= -T
            /\ rendered.allSucceeded <=> (F = 0)
            /\ rendered.totalFailures = F

\* three dashboards, one of which failed at one stage: 66.7 %
C18_Witness ==
    /\ rendered.shown
    /\ summary.TotalDashboards = 3
    /\ Len(summary.ExportFailed) = 1
    /\ rendered.totalFailures = 1
    /\ rendered.successRate = 667
    /\ ~rendered.allSucceeded

\* C19: a run without an input root ends before any service is provisioned; a
\* run that could not provision a backing service ends before discovery and
\* import; a run that could not install the executable or log in ends before
\* any file is migrated; a run ended this way takes no further step and
\* renders no summary.
C19_FatalAbortsImmediately ==
    /\ ~inputGiven => (pc \in {"start", "fatal"} /\ provisioned = {})
    /\ fatal = "input_dir" => (~inputGiven /\ provisioned = {})
    /\ fatal = "grafana" => provisioned = {}
    /\ fatal = "perses" => provisioned = {"grafana"}
    /\ fatal \in {"input_dir", "grafana", "perses"} =>
          (files = <<>> /\ importLog = <<>> /\ exportLog = <<>>)
    /\ fatal = "download" => provisioned = {"grafana", "perses"}
    /\ fatal = "login" => provisioned = {"grafana", "perses", "percli"}
    /\ fatal \in {"download", "login"} =>
          (migFiles = <<>> /\ migrateLog = <<>> /\ persesTree = {})
    /\ fatal # "none" => (pc = "fatal" /\ ~rendered.shown /\ ~ENABLED Next)
    /\ pc \in {"discover", "import"} \cup PastImport => {"grafana", "perses"} \subseteq provisioned
    /\ pc \in {"migrate", "migrating"} \cup PastMigrate => {"percli", "session"} \subseteq provisioned

\* a run that imported and exported a dashboard and then could not log in
C19_Witness ==
    /\ pc = "fatal"
    /\ fatal = "login"
    /\ summary.ExportSuccess = 1
    /\ migrateLog = <<>>
    /\ ~rendered.shown

(***************************************************************************)
(* Properties of the import of one document.                               *)
(***************************************************************************)
\* C20: the document submitted to the import has no top-level id and no
\* top-level uid, whatever the input file held, is submitted with
\* overwrite = true, and has every other top-level field of the input file
\* with the value the input file gave it.
C20_SubmittedDocument ==
    impPc \in {"transport", "status", "decode", "no_uid", "no_id", "ok"} =>
        LET sent == impPayload.doc
        IN  /\ sent.overwrite = TRUE
            /\ "id" \notin DOMAIN sent.dashboard
            /\ "uid" \notin DOMAIN sent.dashboard
            /\ DOMAIN sent.dashboard = DOMAIN impFile.doc \ {"id", "uid"}
            /\ \A k \in DOMAIN sent.dashboard : sent.dashboard[k] = impFile.doc[k]

(***************************************************************************)
(* Properties of the discovery.                                            *)
(***************************************************************************)
EndsInJsonAnyCase(name) ==
    /\ Len(name) >= Len(DotJson)
    /\ \A i \in 1..Len(DotJson) :
          ToLowerChar(name[Len(name) - Len(DotJson) + i]) = DotJson[i]

\* C16: in both modes the discovered files are the candidate files (those of
\* the root in non-recursive mode, those of the whole tree in recursive mode)
\* whose name ends in .json compared case-insensitively, and no others; when
\* discovery finds nothing there is no such file.
C16_CaseInsensitiveSuffix ==
    LET candidates == {f \in inputTree : ~f.isDir /\ (recursive \/ f.dir = RootDir)}
        expected == {f \in candidates : EndsInJsonAnyCase(f.name)}
    IN  /\ pc = "import" => {f \in Range(files) : ~f.isDir} = expected
        /\ (pc = "fatal" /\ fatal = "import" /\ rootReadable) => expected = {}

\* C17: in non-recursive mode discovery returns only direct children of the
\* input root and no directory; in recursive mode it returns every matching
\* file at every depth, each exactly once.
C17_DirectChildrenOrWholeTree ==
    pc = "import" =>
        /\ ~recursive =>
              \A i \in Indices(files) : files[i].dir = RootDir /\ ~files[i].isDir
        /\ recursive =>
              /\ Range(files) = {f \in inputTree : ~f.isDir /\ EndsInJsonAnyCase(f.name)}
              /\ Len(files) = Cardinality(Range(files))

(***************************************************************************)
(* Properties of the datasource handling.                                  *)
(***************************************************************************)
HoldsRef(plugin) ==
    /\ plugin.spec.t = "obj"
    /\ "datasource" \in DOMAIN plugin.spec.v
    /\ plugin.spec.v["datasource"].t = "obj"

RefOf(plugin) == plugin.spec.v["datasource"].v

\* the reference of the written plugin is the emitted one without name, default
\* and nested plugin spec, and nothing else of the plugin has changed
RefStripped(emitted, written) ==
    /\ written.kind = emitted.kind
    /\ HoldsRef(written)
    /\ DOMAIN written.spec.v = DOMAIN emitted.spec.v
    /\ \A k \in DOMAIN emitted.spec.v \ {"datasource"} : written.spec.v[k] = emitted.spec.v[k]
    /\ LET before == RefOf(emitted)
           after == RefOf(written)
       IN  /\ DOMAIN after = DOMAIN before \ {"name", "default"}
           /\ DOMAIN after \subseteq {"kind", "plugin"}
           /\ after["kind"] = before["kind"]
           /\ "plugin" \in DOMAIN after =>
                 /\ DOMAIN after["plugin"].v = {"kind"}
                 /\ after["plugin"].v["kind"] = before["plugin"].v["kind"]

AllRefsStripped(emitted, written) ==
    /\ DOMAIN written.panels = DOMAIN emitted.panels
    /\ \A p \in DOMAIN emitted.panels :
          /\ Len(written.panels[p]) = Len(emitted.panels[p])
          /\ \A i \in Indices(emitted.panels[p]) :
                IF HoldsRef(emitted.panels[p][i])
                THEN RefStripped(emitted.panels[p][i], written.panels[p][i])
                ELSE written.panels[p][i] = emitted.panels[p][i]

C15_FlagOffWritesOutput ==
    (dsPc = "ok" /\ ~useDefaultPersesDatasource) => dsWritten = dsOutput

\* an output that parses and names a datasource, written with the flag off
C15_Witness ==
    /\ dsPc = "ok"
    /\ ~useDefaultPersesDatasource
    /\ dsAccepted
    /\ "p1" \in DOMAIN dsOutput.doc.panels
    /\ Len(dsOutput.doc.panels["p1"]) = 1
    /\ HoldsRef(dsOutput.doc.panels["p1"][1])
    /\ "name" \in DOMAIN RefOf(dsOutput.doc.panels["p1"][1])
    /\ dsWritten = dsOutput

(***************************************************************************)
(* Properties of one iteration of the migration loop.                      *)
(***************************************************************************)
\* percli left the iteration with status zero
ExitedZero == dsPc \in {"write", "ok"}

\* C21: when percli exits with a non-zero status, or exits with status zero
\* and writes nothing or no JSON document on standard output, the file is
\* recorded in MigrationFailed and is not counted in MigrationSuccess.
C21_ToolFailureIsMigrationFailure ==
    (dsPc = "exit" \/ (ExitedZero /\ ~IsJSON(dsOutput)))
        => /\ dsSummary.MigrationFailed = <<Base(MigratedFile)>>
           /\ dsSummary.MigrationSuccess = 0

\* C22: with the flag on, when the cleaning cannot parse what percli wrote,
\* and unless percli or the write failed, the bytes written are exactly what
\* percli wrote, the file is there under <output>/perses at its relative
\* path, and it is counted as a migration success.
C22_ParseFailurePassesThrough ==
    (useDefaultPersesDatasource /\ ~dsAccepted /\ dsPc \notin {"migrate", "mkdir", "exit", "write"})
        => /\ dsWritten = dsOutput
           /\ MigratedFile \in dsTree
           /\ dsSummary.MigrationSuccess = 1
           /\ dsSummary.MigrationFailed = <<>>

\* a JSON document with a named datasource that did not parse as a dashboard
\* was written as percli emitted it
C22_Witness ==
    /\ useDefaultPersesDatasource
    /\ dsPc = "ok"
    /\ ~dsAccepted
    /\ IsJSON(dsOutput)
    /\ \E p \in DOMAIN dsOutput.doc.panels :
          \E i \in 1..Len(dsOutput.doc.panels[p]) :
             /\ HoldsRef(dsOutput.doc.panels[p][i])
             /\ "name" \in DOMAIN RefOf(dsOutput.doc.panels[p][i])
    /\ dsWritten = dsOutput
    /\ dsSummary.MigrationSuccess = 1

(***************************************************************************)
(* Properties of the order of the steps of a run.                          *)
(***************************************************************************)
Tools == {"percli", "session"}
PerFileCalls == Len(importLog) + Len(exportLog) + Len(migrateLog)

\* C23: the stages run strictly one after the other and one file at a time:
\* an import is attempted only with both services provisioned; once an
\* export has been attempted no import follows; once percli is installed or
\* logged in no import and no export follows; a migration is attempted only
\* with percli installed and logged in, and after the first one no tool is
\* installed; once the summary is rendered no per-file call follows; and no
\* step makes more than one per-file call.
C23_StagesInSequence ==
    [][ /\ (importLog' # importLog => Services \subseteq provisioned)
        /\ (exportLog # <<>> => importLog' = importLog)
        /\ (provisioned \cap Tools # {}
               => importLog' = importLog /\ exportLog' = exportLog)
        /\ (migrateLog' # migrateLog => Tools \subseteq provisioned)
        /\ (migrateLog # <<>>
               => importLog' = importLog /\ exportLog' = exportLog
                  /\ provisioned' = provisioned)
        /\ (rendered.shown
               => importLog' = importLog /\ exportLog' = exportLog
                  /\ migrateLog' = migrateLog)
        /\ PerFileCalls' <= PerFileCalls + 1
      ]_vars

\* a run with two files through all three stages has rendered its summary
C23_Witness ==
    /\ rendered.shown
    /\ Len(importLog) >= 2
    /\ Len(exportLog) >= 2
    /\ Len(migrateLog) >= 2
    /\ Services \cup Tools \subseteq provisioned

(***************************************************************************)
(* Properties of the end of a run.                                         *)
(***************************************************************************)
\* the process has exited on its own
RunEnded == pc \in {"fatal", "exited"}

\* C25: with the cleanup flag on, a run that has ended on its own after the
\* provisioning had begun, by returning from main or by a fatal error, has
\* called deleteContainer for both services.
C25_TeardownOnEveryEnd ==
    (cleanUp /\ RunEnded /\ fatal # "input_dir") => teardown = Services

(***************************************************************************)
(* Properties of the report, continued.                                    *)
(***************************************************************************)
\* C24: whenever the report says that all dashboards were migrated
\* successfully, MigrationSuccess, ExportSuccess and SchemaUpdateSuccess are
\* all equal to TotalDashboards.
C24_AllSucceededMeansAllMigrated ==
    (rendered.shown /\ rendered.allSucceeded)
        => /\ summary.SchemaUpdateSuccess = summary.TotalDashboards
           /\ summary.ExportSuccess = summary.TotalDashboards
           /\ summary.MigrationSuccess = summary.TotalDashboards

\* C26: whenever the report is rendered, TotalDashboards is at least 1 and
\* the failures recorded over all stages are at most TotalDashboards, so the
\* success rate printed lies between 0 % and 100 %.
C26_RateWithinBounds ==
    rendered.shown
        => /\ summary.TotalDashboards >= 1
           /\ TotalFailures(summary) <= summary.TotalDashboards
           /\ rendered.successRate >= 0
           /\ rendered.successRate <= 1000

(***************************************************************************)
(* Properties of a second run.                                             *)
(***************************************************************************)
\* C27: in recursive mode with the default output root, a second run on the
\* same input root discovers exactly the files the first run discovered,
\* none of them a file the tool wrote, and its TotalDashboards is the first
\* run's.
C27_RerunDiscoversSameFiles ==
    (recursive /\ ~outputGiven /\ pc = "import")
        => /\ files = FirstRunFiles(inputTree, recursive)
           /\ summary.TotalDashboards = Len(FirstRunFiles(inputTree, recursive))
           /\ \A k \in 1..Len(files) : files[k] \in inputTree

====
